---- MODULE Spec2Model ----
(***************************************************************************)
(* Worksheet assembly pipeline of chinese-worksheets (src/main.py):        *)
(* classifier, lexicon lookup, page composition, combination and the       *)
(* orchestrating loop of main().                                           *)
(***************************************************************************)
EXTENDS Integers, Sequences, FiniteSets, TLC

VARIABLES
    characters,       \* main: the list built from --files and --characters
    no_dl,            \* main: args.no_dl
    entries,          \* main: the parsed dictionary entries
    fs,               \* the output directory: path -> file content
    todo,             \* main: elements of set(characters) not yet iterated
    char,             \* main: the loop variable
    definitions,      \* main: result of lookup_chinese for char
    worksheet_paths,  \* main: the accumulator of final worksheet paths
    pc,               \* position of the run
    doc,              \* combine_worksheets: pages of the aggregate document
    idx,              \* combine_worksheets: position in input_pdf_paths
    open_docs,        \* document handles opened and not closed
    saves,            \* every doc.save call made: input, output, mode
    acquired,         \* items download_files was called for
    looked_up,        \* items lookup_chinese was called for
    composing,        \* items process_raw_worksheet was entered for
    composed,         \* items process_raw_worksheet returned for
    failed,           \* items whose acquisition or composition failed
    combine_calls     \* number of calls of combine_worksheets

vars == <<characters, no_dl, entries, fs, todo, char, definitions,
          worksheet_paths, pc, doc, idx, open_docs, saves, acquired,
          looked_up, composing, composed, failed, combine_calls>>

----------------------------------------------------------------------------
(* Bounds of the model *)

MaxChars == 2

MaxEntries == 3

MaxInputs == 3

(* Program constants *)

MaxDefinitions == 3

----------------------------------------------------------------------------
(* Generic helpers *)

Range(s) == {s[i] : i \in 1..Len(s)}

SeqUpTo(S, n) == UNION {[1..k -> S] : k \in 0..n}

Min(a, b) == IF a <= b THEN a ELSE b

Max(a, b) == IF a >= b THEN a ELSE b

----------------------------------------------------------------------------
(* Strings are sequences of code points (items) or of characters (texts) *)

CP_a == <<97>>              \* "a"

CP_hao == <<22909>>         \* U+597D

CP_xiang == <<24819>>       \* U+60F3

CP_two == <<22909, 24819>>  \* a two-character word read from a file

Items == {CP_a, CP_hao, CP_xiang, CP_two}

(* is_chinese_char: the twelve code point ranges, in decimal *)
ranges ==
    << <<19968, 40959>>,    \* 0x4E00  - 0x9FFF
       <<13312, 19903>>,    \* 0x3400  - 0x4DBF
       <<131072, 173791>>,  \* 0x20000 - 0x2A6DF
       <<173824, 177983>>,  \* 0x2A700 - 0x2B73F
       <<177984, 178207>>,  \* 0x2B740 - 0x2B81F
       <<178208, 183983>>,  \* 0x2B820 - 0x2CEAF
       <<183984, 191471>>,  \* 0x2CEB0 - 0x2EBEF
       <<196608, 201551>>,  \* 0x30000 - 0x3134F
       <<201552, 205743>>,  \* 0x31350 - 0x323AF
       <<191472, 192095>>,  \* 0x2EBF0 - 0x2EE5F
       <<63744, 64255>>,    \* 0xF900  - 0xFAFF
       <<194560, 195103>> >> \* 0x2F800 - 0x2FA1F

is_chinese_char(c) ==
    IF Len(c) # 1 THEN FALSE
    ELSE LET code_point == c[1]
         IN  \E k \in 1..Len(ranges) :
                 ranges[k][1] <= code_point /\ code_point <= ranges[k][2]

ValidItems == {c \in Items : is_chinese_char(c)}

----------------------------------------------------------------------------
(* lookup_chinese *)

startswith(s, p) == Len(s) >= Len(p) /\ SubSeq(s, 1, Len(p)) = p

contains(s, p) ==
    \E i \in 1..(Len(s) - Len(p) + 1) : SubSeq(s, i, i + Len(p) - 1) = p

T_surname == <<"s","u","r","n","a","m","e">>

T_variant_of == <<"v","a","r","i","a","n","t"," ","o","f">>

T_CL == <<"C","L",":">>

T_slang == <<"(","s","l","a","n","g",")">>

(* lines 184-186: results.extend(entry.meanings) for every matching entry *)
RECURSIVE collect_results(_, _)
collect_results(word, es) ==
    IF es = <<>> THEN <<>>
    ELSE LET entry == es[Len(es)]
             before == collect_results(word, SubSeq(es, 1, Len(es) - 1))
         IN  IF entry.traditional = word \/ entry.simplified = word
             THEN before \o entry.meanings
             ELSE before

(* lines 189-200: the filter loop, one result at a time *)
RECURSIVE filter_results(_)
filter_results(results) ==
    IF results = <<>> THEN <<>>
    ELSE LET result == Head(results)
             rest == filter_results(Tail(results))
         IN  IF startswith(result, T_surname) THEN rest
             ELSE IF contains(result, T_variant_of) THEN rest
             ELSE IF contains(result, T_CL) THEN rest
             ELSE IF contains(result, T_slang) THEN rest
             ELSE <<result>> \o rest

(* line 202: filtered_results[:3] *)
slice_to(s, n) == SubSeq(s, 1, Min(n, Len(s)))

lookup_chinese_truncate_first(word, es) ==
    filter_results(slice_to(collect_results(word, es), MaxDefinitions))

lookup_chinese(word, es) ==
    slice_to(filter_results(collect_results(word, es)), MaxDefinitions)

(* Meaning strings of the sample dictionary *)
M_good == <<"g","o","o","d">>

M_surname_Hao == <<"s","u","r","n","a","m","e"," ","H","a","o">>

M_CL_ge == <<"C","L",":","g","e">>

M_well == <<"w","e","l","l">>

M_fine == <<"f","i","n","e">>

M_think == <<"t","h","i","n","k">>

M_slang_ok == <<"(","s","l","a","n","g",")"," ","o","k">>

M_nice == <<"n","i","c","e">>

M_old_variant_of == <<"o","l","d"," ","v","a","r","i","a","n","t"," ","o","f"," ","Y">>

M_my_surname == <<"m","y"," ","s","u","r","n","a","m","e">>

EntryPool ==
    { [traditional |-> CP_hao, simplified |-> CP_hao,
       meanings |-> <<M_good, M_surname_Hao, M_CL_ge>>],
      [traditional |-> CP_hao, simplified |-> CP_hao,
       meanings |-> <<M_well, M_fine>>],
      [traditional |-> CP_xiang, simplified |-> CP_xiang,
       meanings |-> <<M_think>>],
      [traditional |-> CP_xiang, simplified |-> CP_hao,
       meanings |-> <<M_slang_ok, M_nice>>],
      [traditional |-> CP_hao, simplified |-> CP_xiang,
       meanings |-> <<M_old_variant_of, M_my_surname>>],
      [traditional |-> CP_two, simplified |-> CP_two,
       meanings |-> <<M_nice>>] }

SampleDict ==
    << [traditional |-> CP_hao, simplified |-> CP_hao,
        meanings |-> <<M_good, M_surname_Hao, M_CL_ge>>],
       [traditional |-> CP_xiang, simplified |-> CP_xiang,
        meanings |-> <<M_think>>] >>

----------------------------------------------------------------------------
(* Paths under out_dir: Path(out_dir) / f"{pre}{ch}{suf}" *)

out_dir == "output"

NoPath == [dir |-> "", pre |-> "", ch |-> <<>>, suf |-> ""]

image_path(c) ==
    [dir |-> out_dir, pre |-> "", ch |-> c, suf |-> "_stroke_order.png"]

worksheet_path(c) ==
    [dir |-> out_dir, pre |-> "", ch |-> c, suf |-> "_raw_worksheet.pdf"]

final_worksheet_path(c) ==
    [dir |-> out_dir, pre |-> "worksheet_", ch |-> c, suf |-> ".pdf"]

combined_path == 
    [dir |-> out_dir, pre |-> "combined_worksheet", ch |-> <<>>, suf |-> ".pdf"]

AllPaths ==
    {image_path(c) : c \in Items} \cup {worksheet_path(c) : c \in Items}
        \cup {final_worksheet_path(c) : c \in Items} \cup {combined_path}

----------------------------------------------------------------------------
(* File contents.  A readable PDF is a sequence of pages; a page carries   *)
(* the template it came from, its number there, its width and the overlays *)
(* inserted so far.                                                        *)

NoFile == [kind |-> "none", pages |-> <<>>]

Junk == [kind |-> "junk", pages |-> <<>>]

Png == [kind |-> "png", pages |-> <<>>]

Pdf(pages) == [kind |-> "pdf", pages |-> pages]

BlankPage(c, n) == [src |-> c, no |-> n, w |-> 595, overlays |-> <<>>]

Template(c) == Pdf(<<BlankPage(c, 1)>>)

EmptyPdf == Pdf(<<>>)

TextOverlay(rect, text) ==
    [kind |-> "text", rect |-> rect, text |-> text, image |-> NoPath]

ImageOverlay(rect, path) ==
    [kind |-> "image", rect |-> rect, text |-> <<>>, image |-> path]

(* pymupdf.open(path) succeeds on a readable PDF only *)
readable(path) == fs[path].kind = "pdf"

(* " ".join([p[0] for p in pinyin(char)]) for the characters of the model *)
pinyin_str(c) ==
    CASE c = CP_hao -> <<"h","a","o">>
      [] c = CP_xiang -> <<"x","i","a","n","g">>
      [] OTHER -> <<"?">>

(* "<br>".join(definitions) *)
RECURSIVE br_join(_)
br_join(ds) ==
    IF ds = <<>> THEN <<>>
    ELSE IF Len(ds) = 1 THEN ds[1]
    ELSE ds[1] \o <<"<","b","r",">">> \o br_join(Tail(ds))

pinyin_rect == <<50, 50, 200, 500>>

definitions_rect == <<50, 495, 800, 800>>

image_rect(page) == <<page.w - 125, 10, page.w - 10, 125>>

(* page.insert_htmlbox / page.insert_image on page 0 of an open document *)
insert_overlay(pages, ov) ==
    [pages EXCEPT ![1].overlays = Append(@, ov)]

(* lines 102-105 and 117-120: the save mode *)
save_incremental_always(input_pdf_path, output_pdf_path) == TRUE

save_incremental(input_pdf_path, output_pdf_path) ==
    input_pdf_path = output_pdf_path

SaveRecord(input, output) ==
    [input |-> input, output |-> output,
     incremental |-> save_incremental(input, output)]

(* doc.insert_pdf(temp_doc): all pages of temp_doc, appended at the end *)
insert_pdf_first_page(pages, temp_pages) ==
    pages \o SubSeq(temp_pages, 1, Min(1, Len(temp_pages)))

insert_pdf(pages, temp_pages) == pages \o temp_pages

----------------------------------------------------------------------------
(* The disks a run can start on: assets and worksheets of an earlier run   *)
(* may be there (that is what --no-dl relies on), whole, empty or damaged. *)

RawKinds == {"none", "template", "empty", "junk"}

ImgKinds == {"none", "png"}

RawContent(k, c) ==
    CASE k = "template" -> Template(c)
      [] k = "empty" -> EmptyPdf
      [] k = "junk" -> Junk
      [] OTHER -> NoFile

ImgContent(k) == IF k = "png" THEN Png ELSE NoFile

StaleWorksheet(c) ==
    Pdf(<<[src |-> c, no |-> 1, w |-> 595,
           overlays |-> <<TextOverlay(pinyin_rect, <<"o","l","d">>)>>]>>)

DiskOf(raw, img, stale) ==
    [p \in AllPaths |->
        IF p.ch \notin ValidItems THEN NoFile
        ELSE CASE p.suf = "_raw_worksheet.pdf" -> RawContent(raw[p.ch], p.ch)
               [] p.suf = "_stroke_order.png" -> ImgContent(img[p.ch])
               [] OTHER -> IF stale THEN StaleWorksheet(p.ch) ELSE NoFile]

InitialDisks ==
    {DiskOf(raw, img, stale) :
        raw \in [ValidItems -> RawKinds], img \in [ValidItems -> ImgKinds],
        stale \in BOOLEAN}

----------------------------------------------------------------------------
(* main *)

Init ==
    /\ characters \in SeqUpTo(Items, MaxChars)
    /\ no_dl \in BOOLEAN
    /\ entries = SampleDict
    /\ fs \in InitialDisks
    /\ todo = {}
    /\ char = <<>>
    /\ definitions = <<>>
    /\ worksheet_paths = <<>>
    /\ pc = "start"
    /\ doc = <<>>
    /\ idx = 1
    /\ open_docs = {}
    /\ saves = <<>>
    /\ acquired = {}
    /\ looked_up = {}
    /\ composing = {}
    /\ composed = {}
    /\ failed = {}
    /\ combine_calls = 0

(* lines 236-240: no characters: print and return; else enter the loop *)
main_start ==
    /\ pc = "start"
    /\ IF characters = <<>>
       THEN pc' = "exit" /\ todo' = todo
       ELSE pc' = "loop" /\ todo' = Range(characters)
    /\ UNCHANGED <<characters, no_dl, entries, fs, char, definitions,
                   worksheet_paths, doc, idx, open_docs, saves, acquired,
                   looked_up, composing, composed, failed, combine_calls>>

(* lines 241-244: an item the classifier rejects is reported and skipped *)
loop_skip ==
    /\ pc = "loop"
    /\ \E c \in todo :
        /\ ~is_chinese_char(c)
        /\ todo' = todo \ {c}
        /\ char' = c
    /\ UNCHANGED <<characters, no_dl, entries, fs, definitions,
                   worksheet_paths, pc, doc, idx, open_docs, saves, acquired,
                   looked_up, composing, composed, failed, combine_calls>>

(* lines 241-251: the path is appended, then pinyin and definitions *)
loop_accept_no_check ==
    /\ pc = "loop"
    /\ \E c \in todo :
        /\ todo' = todo \ {c}
        /\ char' = c
        /\ worksheet_paths' = Append(worksheet_paths, final_worksheet_path(c))
        /\ definitions' = lookup_chinese(c, entries)
        /\ looked_up' = looked_up \cup {c}
    /\ pc' = "download"
    /\ UNCHANGED <<characters, no_dl, entries, fs, doc, idx, open_docs, saves,
                   acquired, composing, composed, failed, combine_calls>>

loop_accept ==
    /\ pc = "loop"
    /\ \E c \in todo :
        /\ is_chinese_char(c)
        /\ todo' = todo \ {c}
        /\ char' = c
        /\ worksheet_paths' = Append(worksheet_paths, final_worksheet_path(c))
        /\ definitions' = lookup_chinese(c, entries)
        /\ looked_up' = looked_up \cup {c}
    /\ pc' = "download"
    /\ UNCHANGED <<characters, no_dl, entries, fs, doc, idx, open_docs, saves,
                   acquired, composing, composed, failed, combine_calls>>

(* download_binary: the response is written on success; any failure is     *)
(* printed and swallowed, the file left as it was                          *)
download_binary(disk, ok, content, out_path) ==
    IF ok THEN [disk EXCEPT ![out_path] = content] ELSE disk

(* lines 253, 58-86: download_files; with --no-dl nothing is fetched *)
download_files ==
    /\ pc = "download"
    /\ acquired' = acquired \cup {char}
    /\ IF no_dl
       THEN fs' = fs /\ failed' = failed
       ELSE \E img_ok \in BOOLEAN, ws_ok \in BOOLEAN :
              /\ fs' = download_binary(
                          download_binary(fs, img_ok, Png, image_path(char)),
                          ws_ok, Template(char), worksheet_path(char))
              /\ failed' = IF img_ok /\ ws_ok THEN failed
                           ELSE failed \cup {char}
    /\ pc' = "pinyin"
    /\ UNCHANGED <<characters, no_dl, entries, todo, char, definitions,
                   worksheet_paths, doc, idx, open_docs, saves,
                   looked_up, composing, composed, combine_calls>>

----------------------------------------------------------------------------
(* Document Compositor *)

(* An uncaught exception leaves main: nothing after it runs *)
raise_in(c, leaked) ==
    /\ pc' = "crashed"
    /\ failed' = failed \cup {c}
    /\ open_docs' = open_docs \cup leaked
    /\ UNCHANGED <<fs, saves>>

(* lines 98-106: open, page 0, insert_htmlbox, save by mode, close.        *)
(* open raises on an unreadable input; doc[0] raises on a document with no *)
(* page, after the open and before any close.                              *)
add_text_to_pdf(input_pdf_path, text, rect, output_pdf_path, then) ==
    IF ~readable(input_pdf_path) THEN raise_in(char, {})
    ELSE IF fs[input_pdf_path].pages = <<>>
         THEN raise_in(char, {input_pdf_path})
    ELSE /\ fs' = [fs EXCEPT ![output_pdf_path] =
                      Pdf(insert_overlay(fs[input_pdf_path].pages,
                                         TextOverlay(rect, text)))]
         /\ saves' = Append(saves, SaveRecord(input_pdf_path, output_pdf_path))
         /\ pc' = then
         /\ UNCHANGED <<failed, open_docs>>

(* lines 110-121: as above with insert_image, which raises when the image  *)
(* file is not there or is no image                                        *)
add_image_to_pdf(input_pdf_path, img_path, output_pdf_path, then) ==
    IF ~readable(input_pdf_path) THEN raise_in(char, {})
    ELSE IF fs[input_pdf_path].pages = <<>> \/ fs[img_path].kind # "png"
         THEN raise_in(char, {input_pdf_path})
    ELSE /\ fs' = [fs EXCEPT ![output_pdf_path] =
                      Pdf(insert_overlay(fs[input_pdf_path].pages,
                             ImageOverlay(image_rect(fs[input_pdf_path].pages[1]),
                                          img_path)))]
         /\ saves' = Append(saves, SaveRecord(input_pdf_path, output_pdf_path))
         /\ pc' = then
         /\ UNCHANGED <<failed, open_docs>>

(* lines 159 and 167: the later overlays read the final worksheet *)
overlay_input_raw(c) == worksheet_path(c)

overlay_input(c) == final_worksheet_path(c)

(* lines 148-154 *)
add_pinyin ==
    /\ pc = "pinyin"
    /\ composing' = composing \cup {char}
    /\ add_text_to_pdf(worksheet_path(char), pinyin_str(char), pinyin_rect,
                       final_worksheet_path(char), "defs")
    /\ UNCHANGED <<characters, no_dl, entries, todo, char, definitions,
                   worksheet_paths, doc, idx, acquired, looked_up, composed,
                   combine_calls>>

(* lines 156-163 *)
add_definitions ==
    /\ pc = "defs"
    /\ add_text_to_pdf(overlay_input(char), br_join(definitions),
                       definitions_rect, final_worksheet_path(char), "image")
    /\ UNCHANGED <<characters, no_dl, entries, todo, char, definitions,
                   worksheet_paths, doc, idx, acquired, looked_up, composing,
                   composed, combine_calls>>

(* lines 165-170, and the return to the loop of main *)
add_image ==
    /\ pc = "image"
    /\ add_image_to_pdf(overlay_input(char), image_path(char),
                        final_worksheet_path(char), "loop")
    /\ composed' = IF pc' = "loop" THEN composed \cup {char} ELSE composed
    /\ UNCHANGED <<characters, no_dl, entries, todo, char, definitions,
                   worksheet_paths, doc, idx, acquired, looked_up, composing,
                   combine_calls>>

----------------------------------------------------------------------------
(* Worksheet Combiner *)

(* lines 256-257: the loop is over, combine_worksheets is called *)
loop_end ==
    /\ pc = "loop"
    /\ todo = {}
    /\ pc' = "combine"
    /\ UNCHANGED <<characters, no_dl, entries, fs, todo, char, definitions,
                   worksheet_paths, doc, idx, open_docs, saves, acquired,
                   looked_up, composing, composed, failed, combine_calls>>

(* line 128: doc = pymupdf.open() *)
combine_open ==
    /\ pc = "combine"
    /\ combine_calls' = combine_calls + 1
    /\ doc' = <<>>
    /\ idx' = 1
    /\ open_docs' = open_docs \cup {NoPath}
    /\ pc' = "combine_insert"
    /\ UNCHANGED <<characters, no_dl, entries, fs, todo, char, definitions,
                   worksheet_paths, saves, acquired, looked_up, composing,
                   composed, failed>>

(* lines 130-132: one iteration; the with block closes temp_doc; an        *)
(* unreadable input raises out of combine_worksheets                       *)
combine_insert_and_save ==
    /\ pc = "combine_insert"
    /\ idx <= Len(worksheet_paths)
    /\ IF readable(worksheet_paths[idx])
       THEN /\ doc' = insert_pdf(doc, fs[worksheet_paths[idx]].pages)
            /\ idx' = idx + 1
            /\ fs' = [fs EXCEPT ![combined_path] = Pdf(doc')]
            /\ UNCHANGED pc
       ELSE /\ pc' = "crashed"
            /\ UNCHANGED <<doc, idx, fs>>
    /\ UNCHANGED <<characters, no_dl, entries, todo, char, definitions,
                   worksheet_paths, open_docs, saves, acquired, looked_up,
                   composing, composed, failed, combine_calls>>

combine_insert ==
    /\ pc = "combine_insert"
    /\ idx <= Len(worksheet_paths)
    /\ IF readable(worksheet_paths[idx])
       THEN /\ doc' = insert_pdf(doc, fs[worksheet_paths[idx]].pages)
            /\ idx' = idx + 1
            /\ UNCHANGED pc
       ELSE /\ pc' = "crashed"
            /\ UNCHANGED <<doc, idx>>
    /\ UNCHANGED <<characters, no_dl, entries, fs, todo, char, definitions,
                   worksheet_paths, open_docs, saves, acquired, looked_up,
                   composing, composed, failed, combine_calls>>

(* lines 134-135: save once, after the loop, and close *)
combine_save ==
    /\ pc = "combine_insert"
    /\ idx > Len(worksheet_paths)
    /\ fs' = [fs EXCEPT ![combined_path] = Pdf(doc)]
    /\ saves' = Append(saves, [input |-> NoPath, output |-> combined_path,
                               incremental |-> FALSE])
    /\ open_docs' = open_docs \ {NoPath}
    /\ pc' = "done"
    /\ UNCHANGED <<characters, no_dl, entries, todo, char, definitions,
                   worksheet_paths, doc, idx, acquired, looked_up, composing,
                   composed, failed, combine_calls>>

----------------------------------------------------------------------------
(* A whole run of main *)

Next ==
    \/ main_start
    \/ loop_skip
    \/ loop_accept
    \/ download_files
    \/ add_pinyin
    \/ add_definitions
    \/ add_image
    \/ loop_end
    \/ combine_open
    \/ combine_insert
    \/ combine_save

Spec == Init /\ [][Next]_vars

----------------------------------------------------------------------------
(* lookup_chinese on its own: any word against any dictionary drawn from   *)
(* the pool of entries                                                     *)

InitLookup ==
    /\ characters = <<>>
    /\ no_dl = FALSE
    /\ entries \in SeqUpTo(EntryPool, MaxEntries)
    /\ fs = [p \in AllPaths |-> NoFile]
    /\ todo = {}
    /\ char \in Items
    /\ definitions = <<>>
    /\ worksheet_paths = <<>>
    /\ pc = "lookup"
    /\ doc = <<>>
    /\ idx = 1
    /\ open_docs = {}
    /\ saves = <<>>
    /\ acquired = {}
    /\ looked_up = {}
    /\ composing = {}
    /\ composed = {}
    /\ failed = {}
    /\ combine_calls = 0

(* line 251: definitions = lookup_chinese(char, entries) *)
lookup_call ==
    /\ pc = "lookup"
    /\ definitions' = lookup_chinese(char, entries)
    /\ looked_up' = looked_up \cup {char}
    /\ pc' = "looked"
    /\ UNCHANGED <<characters, no_dl, entries, fs, todo, char,
                   worksheet_paths, doc, idx, open_docs, saves, acquired,
                   composing, composed, failed, combine_calls>>

NextLookup == lookup_call

SpecLookup == InitLookup /\ [][NextLookup]_vars

----------------------------------------------------------------------------
(* combine_worksheets on its own: any list of worksheet paths, each file   *)
(* missing, damaged, or a document of one or two pages                     *)

Composed(c, n) ==
    [src |-> c, no |-> n, w |-> 595,
     overlays |-> <<TextOverlay(pinyin_rect, pinyin_str(c))>>]

DocKinds == {"none", "junk", "one", "two"}

DocContent(k, c) ==
    CASE k = "one" -> Pdf(<<Composed(c, 1)>>)
      [] k = "two" -> Pdf(<<Composed(c, 1), Composed(c, 2)>>)
      [] k = "junk" -> Junk
      [] OTHER -> NoFile

CombineDisks ==
    {[p \in AllPaths |->
        IF p.ch \in ValidItems /\ p.pre = "worksheet_"
        THEN DocContent(kind[p.ch], p.ch) ELSE NoFile] :
     kind \in [ValidItems -> DocKinds]}

InitCombine ==
    /\ characters = <<>>
    /\ no_dl = FALSE
    /\ entries = <<>>
    /\ fs \in CombineDisks
    /\ todo = {}
    /\ char = <<>>
    /\ definitions = <<>>
    /\ worksheet_paths \in
          SeqUpTo({final_worksheet_path(c) : c \in ValidItems}, MaxInputs)
    /\ pc = "combine"
    /\ doc = <<>>
    /\ idx = 1
    /\ open_docs = {}
    /\ saves = <<>>
    /\ acquired = {}
    /\ looked_up = {}
    /\ composing = {}
    /\ composed = {}
    /\ failed = {}
    /\ combine_calls = 0

NextCombine ==
    \/ combine_open
    \/ combine_insert
    \/ combine_save

SpecCombine == InitCombine /\ [][NextCombine]_vars

----------------------------------------------------------------------------
(* Properties *)

Ended == pc \in {"done", "crashed", "exit"}

Rejected(c) == ~(Len(c) = 1 /\ is_chinese_char(c))

(* C1: no per-character failure aborts the batch: when a run has ended     *)
(* after the acquisition or the composition of some character failed,      *)
(* every requested character has been iterated and the Combiner has been   *)
(* invoked.                                                                *)
C1_FailureContained ==
    (Ended /\ failed # {}) => (todo = {} /\ combine_calls = 1)

(* C2: in every state the accumulator holds only paths of characters whose *)
(* composition has completed, once each and in the order of completion;    *)
(* never the path of a character still being composed or whose composition *)
(* failed.                                                                 *)
C2_AccumulatorOnlyCollected ==
    \A i \in 1..Len(worksheet_paths) :
        \E c \in composed : worksheet_paths[i] = final_worksheet_path(c)

(* the pages of the documents at the given paths, one document after the   *)
(* other                                                                   *)
RECURSIVE PagesOf(_)
PagesOf(paths) ==
    IF paths = <<>> THEN <<>>
    ELSE fs[Head(paths)].pages \o PagesOf(Tail(paths))

(* C3: combine is order-preserving and complete: the pages of the combined *)
(* document are exactly the pages of the inputs, each input whole, in list *)
(* order; nothing dropped, duplicated, reordered or added.                 *)
C3_CombineConcatenates ==
    pc = "done" =>
        /\ fs[combined_path].kind = "pdf"
        /\ fs[combined_path].pages = PagesOf(worksheet_paths)
        /\ Len(fs[combined_path].pages) =
              Len(worksheet_paths)
              + Cardinality({i \in 1..Len(worksheet_paths) :
                               Len(fs[worksheet_paths[i]].pages) = 2})

C3_Witness ==
    /\ pc = "done"
    /\ Len(worksheet_paths) = 3
    /\ worksheet_paths[1] # worksheet_paths[2]
    /\ Len(fs[worksheet_paths[1]].pages) = 2
    /\ Len(fs[worksheet_paths[2]].pages) = 1

(* the meanings the claim calls F: those of the matching entries in scan   *)
(* order, without the ones the filter drops                                *)
RECURSIVE MeaningsOf(_)
MeaningsOf(es) ==
    IF es = <<>> THEN <<>> ELSE Head(es).meanings \o MeaningsOf(Tail(es))

Dropped(m) ==
    \/ startswith(m, T_surname)
    \/ contains(m, T_variant_of)
    \/ contains(m, T_CL)
    \/ contains(m, T_slang)

FilteredMeanings ==
    LET Matches(e) == e.traditional = char \/ e.simplified = char
        Kept(m) == ~Dropped(m)
    IN  SelectSeq(MeaningsOf(SelectSeq(entries, Matches)), Kept)

(* C4: lookup returns exactly the first min(3, n) elements of F, the       *)
(* meanings of the matching entries in scan order with the filtered ones   *)
(* removed (n its length): filtering comes before truncation, the result   *)
(* has at most 3 elements, none of them filtered, and is empty when        *)
(* nothing matches.                                                        *)
C4_LookupFirstThreeOfFiltered ==
    pc = "looked" =>
        LET F == FilteredMeanings
            n == Len(F)
        IN  /\ definitions = [i \in 1..(IF n < 3 THEN n ELSE 3) |-> F[i]]
            /\ Len(definitions) <= 3
            /\ \A i \in 1..Len(definitions) : ~Dropped(definitions[i])
            /\ (\A k \in 1..Len(entries) :
                    entries[k].traditional # char /\ entries[k].simplified # char)
                 => definitions = <<>>

C4_Witness ==
    /\ pc = "looked"
    /\ Len(definitions) = 3
    /\ Len(FilteredMeanings) > 3
    /\ \E k \in 1..Len(entries) :
          /\ (entries[k].traditional = char \/ entries[k].simplified = char)
          /\ Dropped(entries[k].meanings[2])

(* two rectangles <<x0, y0, x1, y1>> share a point of their interiors *)
Overlap(r, q) ==
    /\ Max(r[1], q[1]) < Min(r[3], q[3])
    /\ Max(r[2], q[2]) < Min(r[4], q[4])

(* C5: in every composition the rectangle of the pronunciation text and    *)
(* the rectangle of the definitions text share no point, and the           *)
(* definitions rectangle lies entirely below the pronunciation rectangle   *)
(* (y grows downwards).                                                    *)
C5_TextRectsDisjoint ==
    \A c \in composing :
        LET f == fs[final_worksheet_path(c)]
            texts == IF f.kind = "pdf" /\ f.pages # <<>>
                     THEN SelectSeq(f.pages[1].overlays,
                                    LAMBDA o : o.kind = "text")
                     ELSE <<>>
        IN  Len(texts) >= 2 =>
                /\ ~Overlap(texts[1].rect, texts[2].rect)
                /\ texts[2].rect[2] >= texts[1].rect[4]

SavesTo(path) ==
    SelectSeq(saves, LAMBDA r : r.output = path)

(* C6: every save of the compositor is incremental exactly when its output *)
(* is its input; so a completed composition made three saves onto the      *)
(* final worksheet: a full one from the raw template, then two incremental *)
(* ones from the final worksheet itself; and the raw template and the      *)
(* final worksheet are never the same document.                            *)
C6_SaveModes ==
    /\ \A i \in 1..Len(saves) :
          saves[i].incremental <=> (saves[i].input = saves[i].output)
    /\ \A c \in composed :
          LET final == final_worksheet_path(c)
          IN  SavesTo(final) =
                << [input |-> worksheet_path(c), output |-> final,
                    incremental |-> FALSE],
                   [input |-> final, output |-> final, incremental |-> TRUE],
                   [input |-> final, output |-> final, incremental |-> TRUE] >>
    /\ \A c \in Items : worksheet_path(c) # final_worksheet_path(c)

C6_Witness ==
    /\ pc = "done"
    /\ Cardinality(composed) = 2
    /\ Len(saves) = 7

(* C7: a completed composition applied pronunciation, definitions and      *)
(* stroke-order image in that order, each onto the result of the one       *)
(* before: the final worksheet is the raw template with exactly these      *)
(* three overlays on its first page, none lost or replaced, and the raw    *)
(* template is as the Asset Provider left it.                              *)
C7_AllOverlaysKept ==
    \A c \in composed :
        LET raw == fs[worksheet_path(c)]
            final == fs[final_worksheet_path(c)]
        IN  /\ raw = Template(c)
            /\ final.kind = "pdf"
            /\ Len(final.pages) = 1
            /\ final.pages[1].src = c
            /\ final.pages[1].overlays =
                 << TextOverlay(<<50, 50, 200, 500>>, pinyin_str(c)),
                    TextOverlay(<<50, 495, 800, 800>>,
                                br_join(lookup_chinese(c, entries))),
                    ImageOverlay(<<470, 10, 585, 125>>, image_path(c)) >>

C7_Witness ==
    /\ composed = {CP_hao, CP_xiang}
    /\ pc = "loop"
    /\ ~no_dl

(* C8: every document handle an overlay operation or the Combiner opened   *)
(* is closed on every exit path: once the operation has returned or        *)
(* failed, no handle is open.                                              *)
C8_HandlesClosed ==
    pc # "combine_insert" => open_docs = {}

(* C9: for an item the classifier rejects nothing is acquired, looked up   *)
(* or composed, no path enters the accumulator, no file is written and no  *)
(* page of the combined output is its; and the loop goes on after it.      *)
C9_RejectedUntouched ==
    /\ \A c \in Range(characters) :
          Rejected(c) =>
            /\ c \notin acquired \cup looked_up \cup composing \cup composed
            /\ final_worksheet_path(c) \notin Range(worksheet_paths)
            /\ \A p \in AllPaths : p.ch = c => fs[p] = NoFile
            /\ \A i \in 1..Len(fs[combined_path].pages) :
                  fs[combined_path].pages[i].src # c
    /\ (pc # "start" /\ char \in Range(characters) /\ Rejected(char))
          => pc \in {"loop", "combine", "combine_insert", "done"}

C9_Witness ==
    /\ pc = "done"
    /\ characters = <<CP_a, CP_hao>>
    /\ composed = {CP_hao}
    /\ char = CP_a
    /\ Len(fs[combined_path].pages) = 1

(* C10: an unreadable input fails the whole combine and nothing is         *)
(* written: the combined document exists only once every input has been    *)
(* read and appended, never with the pages of a proper prefix of them.     *)
C10_NoPartialCombine ==
    /\ fs[combined_path] # NoFile =>
          /\ pc = "done"
          /\ idx = Len(worksheet_paths) + 1
          /\ \A i \in 1..Len(worksheet_paths) : readable(worksheet_paths[i])
    /\ (\E i \in 1..Len(worksheet_paths) : ~readable(worksheet_paths[i]))
          => pc # "done"

C10_Witness ==
    /\ pc = "crashed"
    /\ idx = 3
    /\ Len(worksheet_paths) = 3
    /\ doc # <<>>
    /\ fs[combined_path] = NoFile

====
